---- MODULE Spec2Model ----
(***************************************************************************)
(* The LED cue players of the light-painting drone:                        *)
(*   pi_scripts/mission_led_runtime.py  (reacts to MISSION_CURRENT)        *)
(*   pi_scripts/mission_led.py          (reacts to MISSION_ITEM_REACHED)   *)
(* and the LED command they invoke, pi_scripts/led25.py.                   *)
(*                                                                         *)
(* Text is modelled as a tuple of one-character strings, so that str(),    *)
(* strip(), lower() and int() are computed character by character.         *)
(* Python's None / a value is modelled as <<>> / <<value>>.                *)
(***************************************************************************)
EXTENDS Integers, Sequences, FiniteSets, TLC

\* ------------------------------------------------------------------ bounds
\* plan keys are the decimal texts of some of 0..MaxKey, and telemetry
\* indices range over 0..MaxKey: a plan that lacks a key has an absent index
MaxKey == 1
\* number of waypoint-position messages of one session
MaxMsgs == 3

\* ------------------------------------------------------------ Python text
None == <<>>
Some(x) == <<x>>

Whitespace == {" ", "\t", "\n", "\r"}
UpperLetters == <<"A","B","C","D","E","F","G","H","I","J","K","L","M",
                  "N","O","P","Q","R","S","T","U","V","W","X","Y","Z">>
LowerLetters == <<"a","b","c","d","e","f","g","h","i","j","k","l","m",
                  "n","o","p","q","r","s","t","u","v","w","x","y","z">>
Digits == <<"0","1","2","3","4","5","6","7","8","9">>

LowerChar(c) ==
    IF \E i \in DOMAIN UpperLetters : UpperLetters[i] = c
    THEN LowerLetters[CHOOSE i \in DOMAIN UpperLetters : UpperLetters[i] = c]
    ELSE c

\* str.lower()
Lower(s) == [i \in 1..Len(s) |-> LowerChar(s[i])]

RECURSIVE LStrip(_)
LStrip(s) == IF s # <<>> /\ Head(s) \in Whitespace THEN LStrip(Tail(s)) ELSE s

RECURSIVE RStrip(_)
RStrip(s) ==
    IF s # <<>> /\ s[Len(s)] \in Whitespace
    THEN RStrip(SubSeq(s, 1, Len(s) - 1))
    ELSE s

\* str.strip()
Strip(s) == RStrip(LStrip(s))

\* str(n) of a non-negative int
RECURSIVE IntToStr(_)
IntToStr(n) ==
    IF n < 10 THEN <<Digits[n + 1]>>
    ELSE IntToStr(n \div 10) \o <<Digits[(n % 10) + 1]>>

IsDigit(c) == \E i \in DOMAIN Digits : Digits[i] = c
DigitVal(c) == (CHOOSE i \in DOMAIN Digits : Digits[i] = c) - 1

RECURSIVE DigitsVal(_)
DigitsVal(s) ==
    IF s = <<>> THEN 0
    ELSE 10 * DigitsVal(SubSeq(s, 1, Len(s) - 1)) + DigitVal(s[Len(s)])

\* int(k) of a text: None models ValueError.  Surrounding whitespace and one
\* leading sign are accepted, then decimal digits only.
ParseInt(k) ==
    LET t == Strip(k)
        signed == t # <<>> /\ Head(t) \in {"+", "-"}
        body == IF signed THEN Tail(t) ELSE t
    IN  IF body = <<>> \/ \E i \in 1..Len(body) : ~IsDigit(body[i])
        THEN None
        ELSE Some(IF signed /\ Head(t) = "-" THEN 0 - DigitsVal(body)
                  ELSE DigitsVal(body))

\* ------------------------------------------------------------- led25.py
COLOR_MAP ==
    { <<"r","e","d">>, <<"g","r","e","e","n">>, <<"b","l","u","e">>,
      <<"b","r","o","w","n">>, <<"w","h","i","t","e">>,
      <<"y","e","l","l","o","w">>, <<"c","y","a","n">>,
      <<"m","a","g","e","n","t","a">>, <<"o","r","a","n","g","e">>,
      <<"p","u","r","p","l","e">>, <<"p","i","n","k">>,
      <<"w","a","r","m","w","h","i","t","e">>,
      <<"c","o","l","d","w","h","i","t","e">>, <<"o","f","f">> }

off == <<"o","f","f">>
red == <<"r","e","d">>
green == <<"g","r","e","e","n">>

\* led25.main: the ways the LED command can end for one argument.  An
\* unknown name ends in usage() (exit 1); a known name is applied to the
\* strip, which the hardware can still refuse ("error").
led25_main(name) ==
    IF Lower(name) \in COLOR_MAP THEN {"ok", "error"} ELSE {"error"}

\* subprocess.run(..., check=False): the command's own end, or "raised" when
\* the command cannot be started at all
SubprocessRun(color) == led25_main(color) \cup {"raised"}

\* ------------------------------------------------------- plan documents
\* a plan document is its entries in document order: <<[k |-> key, v |-> value]>>
RECURSIVE JsonObject(_)
\* json.loads of a document whose top level is an object: a dict, the last
\* entry of a repeated key winning
JsonObject(d) ==
    IF d = <<>> THEN <<>>
    ELSE LET front == JsonObject(SubSeq(d, 1, Len(d) - 1))
             e == d[Len(d)]
         IN  [x \in DOMAIN front \cup {e.k} |-> IF x = e.k THEN e.v ELSE front[x]]

\* mission_led_runtime.load_led_config, what it prints aside
LoadOutcome(env) ==
    CASE env = "no_file" -> "not_found"
      [] env = "bad_json" -> "failed"
      [] env = "not_dict" -> "not_dict"
      [] OTHER -> "loaded"

load_led_config(env, d) ==
    IF LoadOutcome(env) = "loaded" THEN JsonObject(d) ELSE <<>>

NotCfgNever(cfg) == FALSE
\* `not led_cfg` / `not wp_to_color`
NotCfg(cfg) == DOMAIN cfg = {}

\* get_led_command with "off" as the default of a missing key
get_led_command_default_off(led_cfg, wp_index) ==
    LET key == IntToStr(wp_index)
    IN  IF key \notin DOMAIN led_cfg THEN Some(off)
        ELSE LET val == Strip(led_cfg[key])
             IN  IF val = <<>> THEN None ELSE Some(Lower(val))

\* get_led_command without the final lower()
get_led_command_no_lower(led_cfg, wp_index) ==
    LET key == IntToStr(wp_index)
    IN  IF key \notin DOMAIN led_cfg THEN None
        ELSE LET val == Strip(led_cfg[key])
             IN  IF val = <<>> THEN None ELSE Some(val)

\* mission_led_runtime.get_led_command
get_led_command(led_cfg, wp_index) ==
    LET key == IntToStr(wp_index)
    IN  IF key \notin DOMAIN led_cfg THEN None
        ELSE LET val == Strip(led_cfg[key])
             IN  IF val = <<>> THEN None ELSE Some(Lower(val))

RECURSIVE load_led_map(_)
\* mission_led.load_led_map on an object document: entries whose key int()
\* rejects are skipped, a later entry of the same index wins
load_led_map(d) ==
    IF d = <<>> THEN <<>>
    ELSE LET front == load_led_map(SubSeq(d, 1, Len(d) - 1))
             e == d[Len(d)]
             idx == ParseInt(e.k)
         IN  IF idx = None THEN front
             ELSE [x \in DOMAIN front \cup {idx[1]} |->
                      IF x = idx[1] THEN Lower(e.v) ELSE front[x]]


\* ------------------------------------------------------------------ state
VARIABLES
    program,        \* which player runs: "mission_led_runtime" or "mission_led"
    env,            \* what the player finds at startup (arguments, files)
    doc,            \* the plan document on disk
    pc,             \* "start", "wait_heartbeat", "loop" or "exited"
    loadStatus,     \* how the plan loader ended, "not_run" before it ran
    led_cfg,        \* mission_led_runtime.main: led_cfg
    wp_to_color,    \* mission_led.main: wp_to_color
    msg,            \* the last value recv_match returned
    current_wp,     \* mission_led_runtime.main: current_wp
    current_color,  \* main: current_color
    heartbeat_seen, \* mission_led_runtime.main: heartbeat_seen
    sink,           \* the colour names the LED command was invoked with
    sinkResult,     \* how the most recent invocation ended
    msgs,           \* the indices of the waypoint-position messages received
    interrupted,    \* the operator's interrupt (KeyboardInterrupt) arrived
    exitCode        \* the process's exit status, None while it runs

vars == <<program, env, doc, pc, loadStatus, led_cfg, wp_to_color, msg,
          current_wp, current_color, heartbeat_seen, sink, sinkResult, msgs,
          interrupted, exitCode>>

RUNTIME == "mission_led_runtime"
LED == "mission_led"

\* the values a plan entry takes in the general specification: blank, a
\* reserved word in upper case, a colour of COLOR_MAP, a name COLOR_MAP lacks
PlanValues == { <<>>, <<"O","F","F">>, red, <<"T","e","a","l">> }

WpRange == 0..MaxKey

RECURSIVE DocsFrom(_)
\* the documents whose keys are the decimal texts of some of i..MaxKey
DocsFrom(i) ==
    IF i > MaxKey THEN { <<>> }
    ELSE LET rest == DocsFrom(i + 1)
         IN  rest \cup { <<[k |-> IntToStr(i), v |-> v]>> \o d :
                           v \in PlanValues, d \in rest }

RuntimeEnvs == {"ok", "no_dir", "no_files", "no_file", "bad_json", "not_dict"}
LedEnvs == {"ok", "bad_argv", "no_file", "bad_json", "not_dict"}

InitWith(programs, docs) ==
    /\ program \in programs
    /\ env \in (IF program = RUNTIME THEN RuntimeEnvs ELSE LedEnvs)
    /\ doc \in (IF env = "ok" THEN docs ELSE { <<>> })
    /\ pc = "start"
    /\ loadStatus = "not_run"
    /\ led_cfg = <<>>
    /\ wp_to_color = <<>>
    /\ msg = None
    /\ current_wp = None
    /\ current_color = None
    /\ heartbeat_seen = FALSE
    /\ sink = <<>>
    /\ sinkResult = "none"
    /\ msgs = <<>>
    /\ interrupted = FALSE
    /\ exitCode = None

Init == InitWith({RUNTIME, LED}, DocsFrom(0))

loopVars == <<msg, current_wp, current_color, heartbeat_seen, sink,
              sinkResult, msgs>>
fixedVars == <<program, env, doc>>

\* ------------------------------------------- mission_led_runtime: startup
\* main, lines 132-149: choose_led_plan, load_led_config, the empty check
\* and the connection
RuntimeMain_Startup ==
    /\ program = RUNTIME /\ pc = "start"
    /\ IF env \in {"no_dir", "no_files"}
       THEN \* choose_led_plan: raise SystemExit(1)
            /\ pc' = "exited" /\ exitCode' = Some(1)
            /\ UNCHANGED <<loadStatus, led_cfg>>
       ELSE /\ loadStatus' = LoadOutcome(env)
            /\ led_cfg' = load_led_config(env, doc)
            /\ IF NotCfg(led_cfg')
               THEN \* "Empty config, nothing to do.": return
                    pc' = "exited" /\ exitCode' = Some(0)
               ELSE pc' = "loop" /\ exitCode' = None
    /\ UNCHANGED <<fixedVars, loopVars, wp_to_color, interrupted>>

\* ---------------------------------------------------- mission_led: startup
\* main, lines 39-50: the argument check, load_led_map and the empty check.
\* A document that json.load rejects, or whose top level has no items(),
\* ends the process with an uncaught exception (status 1).
LedMain_Startup ==
    /\ program = LED /\ pc = "start"
    /\ IF env # "ok"
       THEN /\ pc' = "exited" /\ exitCode' = Some(1)
            /\ loadStatus' = (CASE env = "bad_argv" -> "not_run"
                                [] env = "no_file" -> "not_found"
                                [] OTHER -> "failed")
            /\ UNCHANGED wp_to_color
       ELSE /\ loadStatus' = "loaded"
            /\ wp_to_color' = load_led_map(doc)
            /\ IF NotCfg(wp_to_color')
               THEN \* "No valid LED mappings, exiting.": sys.exit(1)
                    pc' = "exited" /\ exitCode' = Some(1)
               ELSE pc' = "wait_heartbeat" /\ exitCode' = None
    /\ UNCHANGED <<fixedVars, loopVars, led_cfg, interrupted>>

\* main, lines 51-56: heartbeat_send, wait_heartbeat
LedMain_WaitHeartbeat ==
    /\ program = LED /\ pc = "wait_heartbeat"
    /\ pc' = "loop"
    /\ UNCHANGED <<fixedVars, loopVars, loadStatus, led_cfg, wp_to_color,
                   interrupted, exitCode>>


\* --------------------------------------------------------------- telemetry
\* a received message: its type and, for the type the player reads the
\* index of, its seq (None for the types whose fields the player never reads)
Message(type, seq) == [type |-> type, seq |-> seq]

\* the message types each player receives and does not act on
RuntimeOtherTypes == {"HEARTBEAT", "MISSION_ITEM_REACHED"}
LedOtherTypes == {"HEARTBEAT", "MISSION_CURRENT"}

\* ---------------------------------------------- mission_led_runtime: loop
\* line 173: wp == current_wp
SameWaypoint(wp, current) == Some(wp) = current

SameColorNever(cmd, current) == FALSE
\* line 185: cmd == current_color (mission_led, line 67: its negation)
SameColor(cmd, current) == cmd = current

\* the colour recorded after set_all_leds returned, on success only
AppliedColorOnSuccess(cmd, current, result) ==
    IF result = "ok" THEN cmd ELSE current
\* line 190: current_color = cmd, however the command ended
AppliedColor(cmd, current, result) == cmd

\* set_all_leds: the command's end is printed at most; every end returns
set_all_leds(color_name) == SubprocessRun(color_name)

\* a loop that forgets the waypoint it tracks when the link falls silent
RuntimeMain_Timeout_ForgetsWp ==
    /\ program = RUNTIME /\ pc = "loop"
    /\ msg' = None
    /\ current_wp' = None
    /\ UNCHANGED <<fixedVars, pc, loadStatus, led_cfg, wp_to_color,
                   current_color, heartbeat_seen, sink, sinkResult, msgs,
                   interrupted, exitCode>>

\* lines 152-156: recv_match returned None
RuntimeMain_Timeout ==
    /\ program = RUNTIME /\ pc = "loop"
    /\ msg' = None
    /\ UNCHANGED <<fixedVars, pc, loadStatus, led_cfg, wp_to_color, current_wp,
                   current_color, heartbeat_seen, sink, sinkResult, msgs,
                   interrupted, exitCode>>

\* lines 158-169: a message that is not MISSION_CURRENT
RuntimeMain_Other(mtype) ==
    /\ program = RUNTIME /\ pc = "loop"
    /\ msg' = Some(Message(mtype, None))
    /\ heartbeat_seen' = (heartbeat_seen \/ mtype = "HEARTBEAT")
    /\ UNCHANGED <<fixedVars, pc, loadStatus, led_cfg, wp_to_color, current_wp,
                   current_color, sink, sinkResult, msgs, interrupted, exitCode>>

\* lines 171-192: MISSION_CURRENT with seq = wp
RuntimeMain_MissionCurrent(wp, limit) ==
    /\ program = RUNTIME /\ pc = "loop"
    /\ Len(msgs) < limit
    /\ msg' = Some(Message("MISSION_CURRENT", Some(wp)))
    /\ msgs' = Append(msgs, wp)
    /\ IF SameWaypoint(wp, current_wp)
       THEN UNCHANGED <<current_wp, current_color, sink, sinkResult>>
       ELSE /\ current_wp' = Some(wp)
            /\ LET cmd == get_led_command(led_cfg, wp)
               IN  IF cmd = None \/ SameColor(cmd, current_color)
                   THEN UNCHANGED <<current_color, sink, sinkResult>>
                   ELSE /\ sink' = Append(sink, cmd[1])
                        /\ sinkResult' \in set_all_leds(cmd[1])
                        /\ current_color' =
                              AppliedColor(cmd, current_color, sinkResult')
    /\ UNCHANGED <<fixedVars, pc, loadStatus, led_cfg, wp_to_color,
                   heartbeat_seen, interrupted, exitCode>>

\* the status of a Python process that an uncaught KeyboardInterrupt ends:
\* death by SIGINT, 130 to a shell (1 before Python 3.8: not 0 either way)
UncaughtInterruptStatus == {130}

\* KeyboardInterrupt anywhere in main: nothing catches it
RuntimeMain_Interrupt ==
    /\ program = RUNTIME /\ pc \in {"start", "loop"}
    /\ interrupted' = TRUE
    /\ pc' = "exited"
    /\ \E c \in UncaughtInterruptStatus : exitCode' = Some(c)
    /\ UNCHANGED <<fixedVars, loopVars, loadStatus, led_cfg, wp_to_color>>

\* ------------------------------------------------------ mission_led: loop
\* set_color: subprocess.run with nothing around it
set_color(color) == SubprocessRun(color)

\* lines 59-61: recv_match returned None
LedMain_Timeout ==
    /\ program = LED /\ pc = "loop"
    /\ msg' = None
    /\ UNCHANGED <<fixedVars, pc, loadStatus, led_cfg, wp_to_color, current_wp,
                   current_color, heartbeat_seen, sink, sinkResult, msgs,
                   interrupted, exitCode>>

\* line 62: a message that is not MISSION_ITEM_REACHED
LedMain_Other(mtype) ==
    /\ program = LED /\ pc = "loop"
    /\ msg' = Some(Message(mtype, None))
    /\ UNCHANGED <<fixedVars, pc, loadStatus, led_cfg, wp_to_color, current_wp,
                   current_color, heartbeat_seen, sink, sinkResult, msgs,
                   interrupted, exitCode>>

\* lines 62-69: MISSION_ITEM_REACHED with the given seq.  An exception of
\* subprocess.run leaves set_color and main (only KeyboardInterrupt is
\* caught): the process ends with a traceback, status 1.
LedMain_ItemReached(seq, limit) ==
    /\ program = LED /\ pc = "loop"
    /\ Len(msgs) < limit
    /\ msg' = Some(Message("MISSION_ITEM_REACHED", Some(seq)))
    /\ msgs' = Append(msgs, seq)
    /\ IF seq \in DOMAIN wp_to_color
          /\ ~SameColor(Some(wp_to_color[seq]), current_color)
       THEN LET target_color == wp_to_color[seq]
            IN  /\ sink' = Append(sink, target_color)
                /\ sinkResult' \in set_color(target_color)
                /\ IF sinkResult' = "raised"
                   THEN /\ pc' = "exited" /\ exitCode' = Some(1)
                        /\ UNCHANGED current_color
                   ELSE /\ current_color' = Some(target_color)
                        /\ UNCHANGED <<pc, exitCode>>
       ELSE UNCHANGED <<current_color, sink, sinkResult, pc, exitCode>>
    /\ UNCHANGED <<fixedVars, loadStatus, led_cfg, wp_to_color, current_wp,
                   heartbeat_seen, interrupted>>

\* KeyboardInterrupt outside the try block (lines 40-56): nothing catches it
LedMain_InterruptStartup ==
    /\ program = LED /\ pc \in {"start", "wait_heartbeat"}
    /\ interrupted' = TRUE
    /\ pc' = "exited"
    /\ \E c \in UncaughtInterruptStatus : exitCode' = Some(c)
    /\ UNCHANGED <<fixedVars, loopVars, loadStatus, led_cfg, wp_to_color>>

\* lines 70-72: KeyboardInterrupt inside the loop: set_color("off"), then
\* main returns (status 0), unless set_color itself raises
LedMain_Interrupt ==
    /\ program = LED /\ pc = "loop"
    /\ interrupted' = TRUE
    /\ sink' = Append(sink, off)
    /\ sinkResult' \in set_color(off)
    /\ pc' = "exited"
    /\ exitCode' = Some(IF sinkResult' = "raised" THEN 1 ELSE 0)
    /\ UNCHANGED <<fixedVars, loadStatus, led_cfg, wp_to_color, msg, current_wp,
                   current_color, heartbeat_seen, msgs>>

\* ---------------------------------------------------------- specification
Next ==
    \/ RuntimeMain_Startup
    \/ RuntimeMain_Timeout
    \/ \E t \in RuntimeOtherTypes : RuntimeMain_Other(t)
    \/ \E w \in WpRange : RuntimeMain_MissionCurrent(w, MaxMsgs)
    \/ RuntimeMain_Interrupt
    \/ LedMain_Startup
    \/ LedMain_WaitHeartbeat
    \/ LedMain_Timeout
    \/ \E t \in LedOtherTypes : LedMain_Other(t)
    \/ \E w \in WpRange : LedMain_ItemReached(w, MaxMsgs)
    \/ LedMain_InterruptStartup
    \/ LedMain_Interrupt

Spec == Init /\ [][Next]_vars


\* the session of the docstring example (mission_led_runtime.py, lines 13-22,
\* less its last entry): the plan and the indices the telemetry reports
ScenarioPlan ==
    << [k |-> <<"0">>, v |-> <<"O","F","F">>],
       [k |-> <<"1">>, v |-> <<>>],
       [k |-> <<"2">>, v |-> red],
       [k |-> <<"3">>, v |-> <<>>],
       [k |-> <<"4">>, v |-> green] >>

ScenarioMsgs == <<0, 0, 1, 2, 2, 3, 4>>

InitScenario == InitWith({RUNTIME}, {ScenarioPlan})

NextScenario ==
    \/ RuntimeMain_Startup
    \/ RuntimeMain_Timeout
    \/ \E t \in RuntimeOtherTypes : RuntimeMain_Other(t)
    \/ /\ Len(msgs) < Len(ScenarioMsgs)
       /\ RuntimeMain_MissionCurrent(ScenarioMsgs[Len(msgs) + 1], Len(ScenarioMsgs))
    \/ RuntimeMain_Interrupt

SpecScenario == InitScenario /\ [][NextScenario]_vars

\* plan documents whose keys are not all canonical: texts int() rejects
\* ("abc", "1.5"), a negative index, an index with a leading zero, and the
\* canonical "0" and "1"
KeyTexts ==
    { <<"a","b","c">>, <<"1",".","5">>, <<"-","1">>, <<"0","1">>,
      <<"0">>, <<"1">> }

KeyDocs ==
    { <<[k |-> k1, v |-> red]>> : k1 \in KeyTexts }
      \cup { <<[k |-> p[1], v |-> red], [k |-> p[2], v |-> <<"O","F","F">>]>> :
               p \in { q \in KeyTexts \X KeyTexts : q[1] # q[2] } }

InitKeys == InitWith({RUNTIME, LED}, KeyDocs)

SpecKeys == InitKeys /\ [][Next]_vars

\* ------------------------------------------------------------- properties
Last(s) == s[Len(s)]

\* the directive the running player resolves for a waypoint index from the
\* plan as it loaded it: None is "no change"
Directive(w) ==
    IF program = RUNTIME THEN get_led_command(led_cfg, w)
    ELSE IF w \in DOMAIN wp_to_color THEN Some(wp_to_color[w]) ELSE None

RECURSIVE ColourChanges(_, _)
\* how often the resolved colour changes along a sequence of indices, from
\* the colour `last`; an index that resolves to "no change" changes nothing
ColourChanges(seq, last) ==
    IF seq = <<>> THEN 0
    ELSE LET d == Directive(Head(seq))
         IN  IF d = None \/ d = last THEN ColourChanges(Tail(seq), last)
             ELSE 1 + ColourChanges(Tail(seq), d)

NoEqualNeighbours(s) == \A i \in 1..(Len(s) - 1) : s[i] # s[i + 1]

C2_InterruptOff ==
    [][ (interrupted' /\ ~interrupted /\ pc \in {"wait_heartbeat", "loop"}) =>
          /\ sink' = Append(sink, off)
          /\ msgs' = msgs /\ msg' = msg
          /\ pc' = "exited" ]_vars

\* C3 (as claimed): a sink call from the loop for a colour of COLOR_MAP that
\* ends in a device error (the command exits with an error or cannot be
\* run) leaves current_color as it was before the call.
C3_FailureKeepsColor ==
    [][ (Len(sink') = Len(sink) + 1 /\ ~interrupted'
           /\ Lower(Last(sink')) \in COLOR_MAP
           /\ sinkResult' \in {"error", "raised"})
        => current_color' = current_color ]_vars

\* C4 (as claimed): current_color never holds a name that is no key of
\* COLOR_MAP: an unknown colour is skipped, not recorded.
C4_UnknownNotRecorded ==
    current_color = None \/ Lower(current_color[1]) \in COLOR_MAP

\* the variant a plan value encodes: blank after trimming is "no change"
\* (None), anything else the trimmed, lower-cased value ("off" included)
EncodedDirective(v) ==
    LET t == Lower(Strip(v)) IN IF t = <<>> THEN None ELSE Some(t)

Loaded == pc \in {"wait_heartbeat", "loop"}

\* C5 (as claimed): once the plan is loaded, the directive resolved for the
\* key of each entry is the variant the entry's value encodes.
C5_RoundTrip ==
    Loaded =>
      \A i \in DOMAIN doc :
         ParseInt(doc[i].k) # None =>
            Directive(ParseInt(doc[i].k)[1]) = EncodedDirective(doc[i].v)

\* no entry of the plan document has a key that reads as the index w
AbsentFromPlan(w) == \A i \in DOMAIN doc : ParseInt(doc[i].k) # Some(w)

\* C6: a waypoint message whose index is absent from the plan issues no
\* sink call, leaves current_color unchanged and does not end the player,
\* whatever was received before.
C6_AbsentIsNoChange ==
    [][ (Len(msgs') = Len(msgs) + 1 /\ AbsentFromPlan(Last(msgs'))) =>
          /\ sink' = sink
          /\ current_color' = current_color
          /\ pc' = pc /\ exitCode' = exitCode ]_vars

C6_Witness ==
    /\ pc = "loop"
    /\ Len(msgs) >= 2 /\ AbsentFromPlan(Last(msgs))
    /\ sink # <<>> /\ current_color # None

\* C7: with the example plan, the waypoint messages 0,0,1,2,2,3,4 make the
\* mission_led_runtime player call the sink with off, red, green and nothing
\* else.
C7_Scenario ==
    (program = RUNTIME /\ doc = ScenarioPlan /\ msgs = ScenarioMsgs)
       => sink = <<off, red, green>>

C7_Witness ==
    /\ program = RUNTIME /\ doc = ScenarioPlan /\ msgs = ScenarioMsgs
    /\ pc = "loop" /\ current_wp = Some(4) /\ current_color = Some(green)

\* C8: a plan document with zero entries is loaded without a load error, and
\* the session then ends before the loop: no message is received and the
\* sink is never called.
C8_EmptyPlanAborts ==
    (env = "ok" /\ doc = <<>> /\ pc # "start") =>
       /\ pc = "exited"
       /\ msg = None /\ msgs = <<>> /\ sink = <<>>
       /\ ~interrupted => loadStatus = "loaded"

C8_Witness ==
    /\ env = "ok" /\ doc = <<>> /\ pc = "exited" /\ ~interrupted
    /\ loadStatus = "loaded" /\ sink = <<>>

\* C9 (as claimed): the loop is left only by the operator's interrupt.
C9_LoopEndsOnlyByInterrupt ==
    [][ (pc = "loop" /\ pc' = "exited") => interrupted' ]_vars

\* a required startup resource is missing: the plan directory, a plan to
\* select, the plan file, or a usable configuration in it
StartupResourceMissing ==
    \/ env \in {"no_dir", "no_files", "no_file", "bad_json", "not_dict"}
    \/ env = "ok" /\ loadStatus = "loaded"
         /\ NotCfg(IF program = RUNTIME THEN led_cfg ELSE wp_to_color)

\* C10 (as claimed): a session the operator interrupts ends with status 0,
\* and a player that lacks a startup resource ends with a status other than 0.
C10_ExitStatus ==
    pc = "exited" =>
       /\ (interrupted /\ loadStatus = "loaded") => exitCode = Some(0)
       /\ (~interrupted /\ StartupResourceMissing) => exitCode # Some(0)


\* the keys of the plan as the running player holds it
LoadedKeys == IF program = RUNTIME THEN DOMAIN led_cfg ELSE DOMAIN wp_to_color

\* a key of the loaded plan reads as an integer >= 0
NonNegativeKey(key) ==
    IF program = RUNTIME
    THEN ParseInt(key) # None /\ ParseInt(key)[1] >= 0
    ELSE key >= 0

\* C11 (as claimed): once the plan is loaded, every key the player holds
\* reads as an integer >= 0: entries with any other key were dropped by the
\* loader.
C11_KeysNonNegative ==
    Loaded => \A key \in LoadedKeys : NonNegativeKey(key)


\* C12: while the player is in its loop, current_color is None exactly when
\* the sink was never called, and otherwise is the name passed in the most
\* recent sink call.
C12_ColorIsLastCall ==
    pc = "loop" =>
       /\ current_color = None <=> sink = <<>>
       /\ sink # <<>> => current_color = Some(Last(sink))

C12_Witness ==
    /\ pc = "loop" /\ Len(sink) = 2
    /\ sinkResult = "error" /\ current_color = Some(Last(sink))


\* the step receives, in the mission_led_runtime loop, nothing (a timeout), a
\* message that is not MISSION_CURRENT, or MISSION_CURRENT for the index
\* current_wp already holds
RuntimeNoOpEvent ==
    /\ program = RUNTIME /\ pc = "loop" /\ ~interrupted'
    /\ \/ msg' = None
       \/ msg' # None /\ msg'[1].type # "MISSION_CURRENT"
       \/ msgs' # msgs /\ Some(Last(msgs')) = current_wp

\* C13: in the mission_led_runtime loop a timeout, a message of another kind
\* and a MISSION_CURRENT that repeats current_wp leave current_wp and
\* current_color unchanged and call the sink not at all.
C13_NoOpEvents ==
    [][ RuntimeNoOpEvent =>
          /\ current_wp' = current_wp
          /\ current_color' = current_color
          /\ sink' = sink ]_vars

\* each of the three events has happened after a colour was applied
C13_Witness ==
    /\ program = RUNTIME /\ pc = "loop"
    /\ current_color # None /\ heartbeat_seen
    /\ Len(msgs) >= 2 /\ msgs[Len(msgs)] = msgs[Len(msgs) - 1]
    /\ msg = None


\* the plan document has canonical decimal keys, each once, and values that
\* are not empty and carry no surrounding whitespace
CanonicalPlan ==
    /\ \A i \in DOMAIN doc :
          /\ ParseInt(doc[i].k) # None /\ ParseInt(doc[i].k)[1] >= 0
          /\ doc[i].k = IntToStr(ParseInt(doc[i].k)[1])
          /\ doc[i].v # <<>> /\ Strip(doc[i].v) = doc[i].v
    /\ \A i, j \in DOMAIN doc : doc[i].k = doc[j].k => i = j

\* the colour the plan document gives a waypoint index, None without an entry
PlanColour(w) ==
    IF \E i \in DOMAIN doc : doc[i].k = IntToStr(w)
    THEN Some(Lower(doc[CHOOSE i \in DOMAIN doc : doc[i].k = IntToStr(w)].v))
    ELSE None

RECURSIVE ChangeSequence(_, _)
\* the colours of the plan along a sequence of indices, each kept where it
\* differs from the colour before it (from `last`)
ChangeSequence(seq, last) ==
    IF seq = <<>> THEN <<>>
    ELSE LET c == PlanColour(Head(seq))
         IN  IF c = None \/ c = last THEN ChangeSequence(Tail(seq), last)
             ELSE <<c[1]>> \o ChangeSequence(Tail(seq), c)

\* C14 (as claimed): on a canonical plan the two players issue the same sink
\* calls for the same waypoint indices: after every prefix of the indices,
\* whichever player runs has called the sink with exactly the plan's colour
\* changes along that prefix, and is in its loop to take the rest.
C14_SameCalls ==
    (CanonicalPlan /\ ~interrupted /\ msgs # <<>>) =>
       /\ sink = ChangeSequence(msgs, None)
       /\ pc = "loop"

====
